---- MODULE Spec2Model ----
(***************************************************************************)
(* Torsion-mesh conformer generation of ipython/well_conf_rdkit.ipynb:    *)
(* get_separable_angle_list, get_angle_mesh (itertools.product),          *)
(* conformers_by_change_torsions and the joblib energy step.              *)
(***************************************************************************)
EXTENDS Integers, Sequences, FiniteSets, TLC

VARIABLES samplings, original_angles, torsions_arg, on_the_fly_check,
          angles_list, angle_mesh, conf, hasCollidingCalls,
          bookkeep, torsions, ind, start, finished, pc, par, wpc, xyz_dict

vars == <<samplings, original_angles, torsions_arg, on_the_fly_check,
          angles_list, angle_mesh, conf, hasCollidingCalls,
          bookkeep, torsions, ind, start, finished, pc, par, wpc, xyz_dict>>

\* ------------------------------------------------------------------ bounds
MaxDim == 2
MaxCount == 3
MeshDim == 2
MaxCalls == 2

\* ------------------------------------------------------- program constants
FullTurn == 360
NJobs == 4

\* ----------------------------------------------------------- input values
\* A sampling is an int (step count) or a list (explicit offsets).
IntSpec(n) == [kind |-> "int", n |-> n, list |-> <<>>]
ListSpec(l) == [kind |-> "list", n |-> 0, list |-> l]

\* An optional argument: None, or a list.
NoneArg == [given |-> FALSE, val |-> <<>>]
ListArg(l) == [given |-> TRUE, val |-> l]

\* Python truthiness of an optional list argument (None and [] are falsy).
Truthy(arg) == arg.given /\ Len(arg.val) > 0

SeqsUpTo(S, n) == UNION {[1..d -> S] : d \in 0..n}

\* ----------------------------------------------- get_separable_angle_list
\* [step * i for i in range(n)]
RangeList(step, n) == [i \in 1..n |-> step * (i - 1)]

\* scalar + np.array(arr), then .tolist()
AddScalar(r, arr) == [i \in 1..Len(arr) |-> r + arr[i]]

\* One iteration of the loop body for a dimension whose reference is r.
DimAngles_ZeroBranchDropsRef(angles, r) ==
    IF angles.kind = "int"
    THEN IF angles.n = 0
         THEN <<0>>
         ELSE AddScalar(r, RangeList(FullTurn \div angles.n, angles.n))
    ELSE AddScalar(r, angles.list)

DimAngles_StepRoundedUp(angles, r) ==
    IF angles.kind = "int"
    THEN IF angles.n = 0
         THEN AddScalar(r, <<0>>)
         ELSE AddScalar(r, RangeList((FullTurn + angles.n - 1) \div angles.n,
                                     angles.n))
    ELSE AddScalar(r, angles.list)

DimAngles(angles, r) ==
    IF angles.kind = "int"
    THEN IF angles.n = 0
         THEN AddScalar(r, <<0>>)                       \* ZeroDivisionError
         ELSE AddScalar(r, RangeList(FullTurn \div angles.n, angles.n))
    ELSE AddScalar(r, angles.list)

RECURSIVE SeparableLoop(_, _, _, _)
SeparableLoop(smp, oa, i, angle_list) ==
    IF i > Len(smp) THEN [status |-> "ok", angle_list |-> angle_list]
    ELSE IF i > Len(oa) THEN [status |-> "IndexError", angle_list |-> <<>>]
    ELSE SeparableLoop(smp, oa, i + 1,
                       Append(angle_list, DimAngles(smp[i], oa[i])))

get_separable_angle_list(smp, oa_arg) ==
    LET oa == IF Truthy(oa_arg) THEN oa_arg.val
              ELSE [i \in 1..Len(smp) |-> 0]
    IN  SeparableLoop(smp, oa, 1, <<>>)

NoResult == [status |-> "none", angle_list |-> <<>>]

\* ---------------------------------------------------------- get_angle_mesh
\* itertools.product: result = [x + [y] for x in result for y in pool]
ForY(x, pool) == [j \in 1..Len(pool) |-> Append(x, pool[j])]

\* The comprehension with its loops swapped: for y in pool for x in result.
RECURSIVE ForXFirstFastest(_, _, _)
ForXFirstFastest(result, pool, j) ==
    IF j > Len(pool) THEN <<>>
    ELSE [i \in 1..Len(result) |-> Append(result[i], pool[j])]
         \o ForXFirstFastest(result, pool, j + 1)

RECURSIVE ForX(_, _, _)
ForX(result, pool, i) ==
    IF i > Len(result) THEN <<>>
    ELSE ForY(result[i], pool) \o ForX(result, pool, i + 1)

RECURSIVE ProductLoop(_, _, _)
ProductLoop(pools, d, result) ==
    IF d > Len(pools) THEN result
    ELSE ProductLoop(pools, d + 1, ForX(result, pools[d], 1))

\* The returned object is an iterator: the tuples and how many were yielded.
get_angle_mesh(angle_list) ==
    [made |-> TRUE, items |-> ProductLoop(angle_list, 1, << <<>> >>), pos |-> 0]

NoMesh == [made |-> FALSE, items |-> <<>>, pos |-> 0]

\* ------------------------------------------------- the conformer (RDKitConf)
\* The handle owns its torsional modes and the dihedral of each of them.
NewConf(d) == [modes |-> [i \in 1..d |-> i], dihedral |-> [t \in 1..d |-> 0]]

GetTorsionalModes(c) == c.modes

\* Sets the handle's own torsional modes, in their order, to the angles.
SetAllTorsionsDeg(c, angles) ==
    [c EXCEPT !.dihedral =
        [t \in DOMAIN c.dihedral |->
            IF \E i \in 1..Len(c.modes) : c.modes[i] = t /\ i <= Len(angles)
            THEN angles[CHOOSE i \in 1..Len(c.modes) : c.modes[i] = t] % FullTurn
            ELSE c.dihedral[t]]]

\* The geometry is determined by the dihedrals.
GetPositions(c) == [t \in DOMAIN c.dihedral |-> c.dihedral[t]]

\* Atoms clash when a torsion is eclipsed.
HasCollidingAtoms(c) == \E t \in DOMAIN c.dihedral : c.dihedral[t] = 0

PyBool(b) == IF b THEN "True" ELSE "False"

\* --------------------------------------------- conformers_by_change_torsions
\* bookkeep[ind] = {'angles', 'coords', 'colliding_atoms'}
BookkeepEntry_CheckOffIsFalse(angles, c, check) ==
    [angles |-> angles,
     coords |-> GetPositions(c),
     colliding_atoms |-> IF check = TRUE THEN PyBool(HasCollidingAtoms(c))
                         ELSE "False"]

BookkeepEntry(angles, c, check) ==
    [angles |-> angles,
     coords |-> GetPositions(c),                        \* .tolist(): a copy
     colliding_atoms |-> IF check = TRUE THEN PyBool(HasCollidingAtoms(c))
                         ELSE "None"]

\* ------------------------------------------------------------ input domains
ExplicitLists == {<<>>, <<0, 0>>, <<0, 90>>}
RefAngles == {0, 10}
SmallSpecs == {IntSpec(n) : n \in 0..MaxCount} \cup {ListSpec(l) : l \in ExplicitLists}
BigSpecs == {IntSpec(FullTurn), IntSpec(FullTurn + 1)}

Reverse(s) == [i \in 1..Len(s) |-> s[Len(s) + 1 - i]]
TorsionArgs(d) == {NoneArg, ListArg(<<>>), ListArg(Reverse([i \in 1..d |-> i]))}

Rest ==
    /\ angles_list = NoResult
    /\ angle_mesh = NoMesh
    /\ conf = NewConf(Len(samplings))
    /\ hasCollidingCalls = 0
    /\ bookkeep = <<>>
    /\ torsions = <<>>
    /\ ind = 0
    /\ start = 0
    /\ finished = <<>>
    /\ pc = "start"
    /\ par = "none"
    /\ wpc = <<>>
    /\ xyz_dict = [coords |-> GetPositions(NewConf(Len(samplings)))]

\* The notebook's run: the reference angles are the conformer's own torsions.
Init ==
    /\ samplings \in SeqsUpTo(SmallSpecs, MeshDim)
    /\ original_angles \in {NoneArg} \cup
          {ListArg([i \in 1..Len(samplings) |-> r]) : r \in RefAngles}
    /\ torsions_arg \in TorsionArgs(Len(samplings))
    /\ on_the_fly_check \in BOOLEAN
    /\ Rest

\* Any call of get_separable_angle_list.
InitSchedule ==
    /\ samplings \in SeqsUpTo(SmallSpecs \cup BigSpecs, MaxDim)
    /\ original_angles \in {NoneArg} \cup
          {ListArg(l) : l \in SeqsUpTo(RefAngles, MaxDim + 1)}
    /\ torsions_arg = NoneArg
    /\ on_the_fly_check = FALSE
    /\ Rest

\* ------------------------------------------------------------------ actions
GetSeparableAngleList ==
    /\ pc = "start"
    /\ angles_list' = get_separable_angle_list(samplings, original_angles)
    /\ pc' = IF angles_list'.status = "ok" THEN "scheduled" ELSE "error"
    /\ UNCHANGED <<samplings, original_angles, torsions_arg, on_the_fly_check,
                   angle_mesh, conf, hasCollidingCalls, bookkeep, torsions,
                   ind, start, finished, par, wpc, xyz_dict>>

GetAngleMesh ==
    /\ pc = "scheduled"
    /\ angle_mesh' = get_angle_mesh(angles_list.angle_list)
    /\ pc' = "idle"
    /\ UNCHANGED <<samplings, original_angles, torsions_arg, on_the_fly_check,
                   angles_list, conf, hasCollidingCalls, bookkeep, torsions,
                   ind, start, finished, par, wpc, xyz_dict>>

\* Entry of conformers_by_change_torsions with a fresh bookkeep = {}.
CallConformers ==
    /\ pc = "idle"
    /\ Len(finished) < MaxCalls
    /\ torsions' = IF ~Truthy(torsions_arg) THEN GetTorsionalModes(conf)
                   ELSE torsions_arg.val
    /\ bookkeep' = <<>>
    /\ ind' = 0
    /\ start' = angle_mesh.pos
    /\ pc' = "gen"
    /\ UNCHANGED <<samplings, original_angles, torsions_arg, on_the_fly_check,
                   angles_list, angle_mesh, conf, hasCollidingCalls,
                   finished, par, wpc, xyz_dict>>

\* GenStep with the store keyed from 1 (enumerate(angle_mesh, 1)).
GenStep_EnumerateFromOne ==
    /\ pc = "gen"
    /\ angle_mesh.pos < Len(angle_mesh.items)
    /\ LET angles == angle_mesh.items[angle_mesh.pos + 1]
           c == SetAllTorsionsDeg(conf, angles)
       IN  /\ conf' = c
           /\ bookkeep' = ((ind + 1) :> BookkeepEntry(angles, c, on_the_fly_check))
                          @@ bookkeep
    /\ hasCollidingCalls' = IF on_the_fly_check = TRUE
                            THEN hasCollidingCalls + 1 ELSE hasCollidingCalls
    /\ angle_mesh' = [angle_mesh EXCEPT !.pos = @ + 1]
    /\ ind' = ind + 1
    /\ UNCHANGED <<samplings, original_angles, torsions_arg, on_the_fly_check,
                   angles_list, torsions, start, finished, pc, par, wpc,
                   xyz_dict>>

\* GenStep with the positions read before the torsions are set.
GenStep_ReadBeforeSet ==
    /\ pc = "gen"
    /\ angle_mesh.pos < Len(angle_mesh.items)
    /\ LET angles == angle_mesh.items[angle_mesh.pos + 1]
           c == SetAllTorsionsDeg(conf, angles)
       IN  /\ conf' = c
           /\ bookkeep' = (ind :> BookkeepEntry(angles, conf, on_the_fly_check))
                          @@ bookkeep
    /\ hasCollidingCalls' = IF on_the_fly_check = TRUE
                            THEN hasCollidingCalls + 1 ELSE hasCollidingCalls
    /\ angle_mesh' = [angle_mesh EXCEPT !.pos = @ + 1]
    /\ ind' = ind + 1
    /\ UNCHANGED <<samplings, original_angles, torsions_arg, on_the_fly_check,
                   angles_list, torsions, start, finished, pc, par, wpc,
                   xyz_dict>>

\* One iteration of "for ind, angles in enumerate(angle_mesh)".
GenStep ==
    /\ pc = "gen"
    /\ angle_mesh.pos < Len(angle_mesh.items)
    /\ LET angles == angle_mesh.items[angle_mesh.pos + 1]
           c == SetAllTorsionsDeg(conf, angles)
       IN  /\ conf' = c
           /\ bookkeep' = (ind :> BookkeepEntry(angles, c, on_the_fly_check))
                          @@ bookkeep
    /\ hasCollidingCalls' = IF on_the_fly_check = TRUE
                            THEN hasCollidingCalls + 1 ELSE hasCollidingCalls
    /\ angle_mesh' = [angle_mesh EXCEPT !.pos = @ + 1]
    /\ ind' = ind + 1
    /\ UNCHANGED <<samplings, original_angles, torsions_arg, on_the_fly_check,
                   angles_list, torsions, start, finished, pc, par, wpc,
                   xyz_dict>>

\* The iterator is exhausted: the loop ends and the call returns.
GenReturn ==
    /\ pc = "gen"
    /\ angle_mesh.pos >= Len(angle_mesh.items)
    /\ finished' = Append(finished, bookkeep)
    /\ pc' = "idle"
    /\ UNCHANGED <<samplings, original_angles, torsions_arg, on_the_fly_check,
                   angles_list, angle_mesh, conf, hasCollidingCalls, bookkeep,
                   torsions, ind, start, par, wpc, xyz_dict>>

\* ------------------------------------------------------- the energy step
\* Parallel(n_jobs=4)(delayed(wrapper)(i) for i in range(len(bookkeep)))
ParallelStart ==
    /\ pc = "idle"
    /\ Len(finished) >= 1
    /\ pc' = "parallel"
    /\ wpc' = [i \in DOMAIN bookkeep |-> "pending"]
    /\ par' = IF DOMAIN bookkeep = {} THEN "finished" ELSE "running"
    /\ UNCHANGED <<samplings, original_angles, torsions_arg, on_the_fly_check,
                   angles_list, angle_mesh, conf, hasCollidingCalls, bookkeep,
                   torsions, ind, start, finished, xyz_dict>>

Running == {i \in DOMAIN wpc : wpc[i] = "running"}
Pending == {i \in DOMAIN wpc : wpc[i] = "pending"}

\* Tasks are handed out in the order of range(len(bookkeep)), NJobs at a time.
Dispatch(i) ==
    /\ pc = "parallel"
    /\ par = "running"
    /\ i \in Pending
    /\ \A j \in Pending : i <= j
    /\ Cardinality(Running) < NJobs
    /\ wpc' = [wpc EXCEPT ![i] = "running"]
    /\ UNCHANGED <<samplings, original_angles, torsions_arg, on_the_fly_check,
                   angles_list, angle_mesh, conf, hasCollidingCalls, bookkeep,
                   torsions, ind, start, finished, pc, par, xyz_dict>>

\* wrapper(i): the global "value" is the last record iterated over.
Wrapper(i) ==
    /\ pc = "parallel"
    /\ i \in Running
    /\ IF "geom" \in DOMAIN bookkeep[i]
       THEN \E e \in {"energy", "inf"} :
              LET last == CHOOSE k \in DOMAIN bookkeep :
                              \A j \in DOMAIN bookkeep : j <= k
              IN  /\ xyz_dict' = [xyz_dict EXCEPT !.coords = bookkeep[i].geom]
                  /\ bookkeep' = [bookkeep EXCEPT ![last] = ("energy" :> e) @@ @]
                  /\ wpc' = [wpc EXCEPT ![i] = "done"]
                  /\ par' = IF \A j \in DOMAIN wpc : j = i \/ wpc[j] = "done"
                            THEN "finished" ELSE par
       ELSE \* KeyError: 'geom', raised out of the worker and out of Parallel
            /\ wpc' = [wpc EXCEPT ![i] = "failed"]
            /\ par' = "aborted"
            /\ UNCHANGED <<bookkeep, xyz_dict>>
    /\ UNCHANGED <<samplings, original_angles, torsions_arg, on_the_fly_check,
                   angles_list, angle_mesh, conf, hasCollidingCalls,
                   torsions, ind, start, finished, pc>>

Next ==
    \/ GetSeparableAngleList
    \/ GetAngleMesh
    \/ CallConformers
    \/ GenStep
    \/ GenReturn
    \/ ParallelStart
    \/ \E i \in DOMAIN wpc : Dispatch(i)
    \/ \E i \in DOMAIN wpc : Wrapper(i)

Spec == Init /\ [][Next]_vars

NextSchedule == GetSeparableAngleList

SpecSchedule == InitSchedule /\ [][NextSchedule]_vars

\* ================================================================ properties
\* The reference angle of dimension i: 0 when no reference angles are given.
RefDefined(i) == ~original_angles.given \/ i <= Len(original_angles.val)
Ref(i) == IF original_angles.given THEN original_angles.val[i] ELSE 0
RefsCover == \A i \in 1..Len(samplings) : RefDefined(i)

IsStepCount(i) == samplings[i].kind = "int" /\ samplings[i].n > 0
IsZeroCount(i) == samplings[i].kind = "int" /\ samplings[i].n = 0

\* The schedule s holds n values, the k-th being r + k * floor(360 / n).
EvenlySpaced(s, n, r) ==
    /\ Len(s) = n
    /\ \A k \in 0..(n - 1) : s[k + 1] = r + k * (FullTurn \div n)

ConstantStep(s) ==
    \A k \in 1..(Len(s) - 1) : s[k + 1] - s[k] = s[2] - s[1]

StrictlyIncreasing(s) == \A k \in 1..(Len(s) - 1) : s[k + 1] > s[k]

\* C1, as stated: every step count n > 0 with reference r gives exactly n
\* values r + k*floor(360/n), strictly increasing by a constant step.
C1_StepCountStrictlyIncreasing ==
    pc = "scheduled" =>
        \A i \in 1..Len(samplings) :
            (IsStepCount(i) /\ RefDefined(i)) =>
                LET s == angles_list.angle_list[i]
                IN  /\ EvenlySpaced(s, samplings[i].n, Ref(i))
                    /\ ConstantStep(s)
                    /\ StrictlyIncreasing(s)

\* C1, amended: every step count n > 0 with reference r gives exactly n
\* values r + k*floor(360/n) with a constant step; they are strictly
\* increasing when n <= 360, and all equal to r when n > 360 (the step is 0).
C1_StepCountSchedule ==
    pc = "scheduled" =>
        \A i \in 1..Len(samplings) :
            (IsStepCount(i) /\ RefDefined(i)) =>
                LET s == angles_list.angle_list[i]
                    n == samplings[i].n
                IN  /\ EvenlySpaced(s, n, Ref(i))
                    /\ ConstantStep(s)
                    /\ n <= FullTurn => StrictlyIncreasing(s)
                    /\ n > FullTurn => \A k \in 1..n : s[k] = Ref(i)

C1_Witness ==
    /\ pc = "scheduled"
    /\ samplings = <<IntSpec(3), IntSpec(FullTurn + 1)>>
    /\ original_angles = ListArg(<<10, 10>>)
    /\ angles_list.angle_list[1] = <<10, 130, 250>>
    /\ Len(angles_list.angle_list[2]) = FullTurn + 1

\* What the per-dimension rule gives for a dimension that is not a zero count.
FollowsRule(s, i) ==
    IF samplings[i].kind = "int"
    THEN EvenlySpaced(s, samplings[i].n, Ref(i))
    ELSE /\ Len(s) = Len(samplings[i].list)
         /\ \A k \in 1..Len(s) : s[k] = Ref(i) + samplings[i].list[k]

\* C2: a step count of 0 is no error: the call returns normally, that
\* dimension's schedule is exactly [r], and every other dimension's schedule
\* is what its own sampling and reference give.
C2_ZeroCountKeepsReference ==
    (pc # "start" /\ RefsCover /\ \E i \in 1..Len(samplings) : IsZeroCount(i)) =>
        /\ angles_list.status = "ok"
        /\ Len(angles_list.angle_list) = Len(samplings)
        /\ \A i \in 1..Len(samplings) :
              IF IsZeroCount(i)
              THEN angles_list.angle_list[i] = <<Ref(i)>>
              ELSE FollowsRule(angles_list.angle_list[i], i)

C2_Witness ==
    /\ pc = "scheduled"
    /\ samplings = <<IntSpec(0), IntSpec(2)>>
    /\ original_angles = ListArg(<<10, 0>>)
    /\ angles_list.angle_list = << <<10>>, <<0, 180>> >>

\* C3: supplied reference angles whose length differs from the number of
\* sampling dimensions make the call fail with an error.
C3_LengthMismatchFails ==
    (pc # "start" /\ original_angles.given
        /\ Len(original_angles.val) # Len(samplings)) =>
            angles_list.status = "IndexError"

\* ------------------------------------------------------------------- mesh
RECURSIVE ProdLens(_, _)
ProdLens(pools, d) ==
    IF d > Len(pools) THEN 1 ELSE Len(pools[d]) * ProdLens(pools, d + 1)

\* The k-th tuple (from 0) in row-major order, last dimension fastest.
NthTuple(pools, k) ==
    [d \in 1..Len(pools) |->
        pools[d][((k \div ProdLens(pools, d + 1)) % Len(pools[d])) + 1]]

RowMajor(pools, items) ==
    /\ Len(items) = ProdLens(pools, 1)
    /\ \A k \in 1..Len(items) :
          /\ Len(items[k]) = Len(pools)
          /\ items[k] = NthTuple(pools, k - 1)

NoDuplicates(items) ==
    \A j, k \in 1..Len(items) : j # k => items[j] # items[k]

DistinctValues(pool) ==
    \A j, k \in 1..Len(pool) : j # k => pool[j] # pool[k]

\* C4, as stated: the mesh holds the product of the lengths many tuples,
\* each of length D, in row-major order with the last dimension fastest,
\* and no tuple occurs twice.
C4_MeshNoDuplicates ==
    angle_mesh.made =>
        /\ RowMajor(angles_list.angle_list, angle_mesh.items)
        /\ NoDuplicates(angle_mesh.items)

\* C4, amended: the mesh holds the product of the lengths many tuples, each
\* of length D, in row-major order with the last dimension fastest; no tuple
\* occurs twice provided every schedule's values are pairwise distinct.
C4_MeshRowMajor ==
    angle_mesh.made =>
        LET pools == angles_list.angle_list
        IN  /\ RowMajor(pools, angle_mesh.items)
            /\ (\A d \in 1..Len(pools) : DistinctValues(pools[d]))
                  => NoDuplicates(angle_mesh.items)

C4_Witness ==
    /\ angle_mesh.made
    /\ angles_list.angle_list = << <<0, 90>>, <<0, 180>> >>
    /\ angle_mesh.items = << <<0, 0>>, <<0, 180>>, <<90, 0>>, <<90, 180>> >>

\* C5: a second pass over the same mesh object sees the same assignments in
\* the same order and fills a store of the same size as the first pass.
C5_MeshRestartable ==
    Len(finished) >= 2 =>
        /\ DOMAIN finished[2] = DOMAIN finished[1]
        /\ \A j \in DOMAIN finished[1] :
              finished[2][j].angles = finished[1][j].angles

\* ------------------------------------------------------------- generation
Processed == angle_mesh.pos - start

\* C6: after k assignments the store's keys are exactly 0..k-1 and record j
\* holds the j-th tuple of the mesh handed to the call; on completion the
\* store holds one record for each of the N assignments.
C6_StoreContiguous ==
    pc \in {"gen", "idle", "parallel"} =>
        /\ DOMAIN bookkeep = 0..(Processed - 1)
        /\ \A j \in DOMAIN bookkeep :
              bookkeep[j].angles = NthTuple(angles_list.angle_list, start + j)
        /\ (pc = "idle" /\ Len(finished) >= 1) =>
              /\ finished[Len(finished)] = bookkeep
              /\ Cardinality(DOMAIN bookkeep)
                    = ProdLens(angles_list.angle_list, 1) - start

C6_Witness ==
    /\ pc = "idle"
    /\ Len(finished) = 1
    /\ DOMAIN bookkeep = 0..3
    /\ bookkeep[2].angles = <<90, 0>>

AllStores == {bookkeep} \cup {finished[k] : k \in 1..Len(finished)}

\* C7: with the check disabled every record's colliding field is None and
\* the collision predicate is never evaluated; with it enabled the field is
\* the predicate's boolean for the geometry of that assignment.
C7_CollisionFlag ==
    /\ on_the_fly_check = FALSE =>
          /\ hasCollidingCalls = 0
          /\ \A st \in AllStores : \A j \in DOMAIN st :
                st[j].colliding_atoms = "None"
    /\ on_the_fly_check = TRUE =>
          /\ hasCollidingCalls = angle_mesh.pos
          /\ \A st \in AllStores : \A j \in DOMAIN st :
                st[j].colliding_atoms =
                    PyBool(\E d \in 1..Len(st[j].angles) :
                               st[j].angles[d] % FullTurn = 0)

C7_Witness ==
    /\ on_the_fly_check = FALSE
    /\ pc = "idle"
    /\ Len(finished) = 1
    /\ Cardinality(DOMAIN bookkeep) >= 2
    /\ \A j \in DOMAIN bookkeep : bookkeep[j].colliding_atoms = "None"

\* C8: each assignment is applied to the torsions of the explicit list when
\* one is passed, and to the handle's own torsional modes only otherwise.
C8_ExplicitTorsionsApplied ==
    (pc \in {"gen", "idle"} /\ Processed > 0) =>
        LET angles == angle_mesh.items[angle_mesh.pos]
        IN  \A d \in 1..Len(torsions) :
                conf.dihedral[torsions[d]] = angles[d] % FullTurn

\* C9: the coordinates stored at index i are the positions of the handle set
\* to the i-th assignment, whatever was done to the handle afterwards; after
\* the call the handle is in the state of the last assignment.
C9_CoordsCaptured ==
    pc \in {"gen", "idle", "parallel"} =>
        /\ \A j \in DOMAIN bookkeep :
              LET a == NthTuple(angles_list.angle_list, start + j)
              IN  bookkeep[j].coords = [t \in 1..Len(a) |-> a[t] % FullTurn]
        /\ (pc = "idle" /\ Processed > 0) =>
              LET a == NthTuple(angles_list.angle_list, angle_mesh.pos - 1)
              IN  conf.dihedral = [t \in 1..Len(a) |-> a[t] % FullTurn]

C9_Witness ==
    /\ pc = "idle"
    /\ Len(finished) = 1
    /\ DOMAIN bookkeep = 0..3
    /\ bookkeep[0].coords = <<10, 10>>
    /\ bookkeep[3].coords = <<100, 190>>
    /\ conf.dihedral = <<100, 190>>

\* C10: a worker that has run has written its result to its own index's
\* slot and to no other record, and a failure does not stop the others.
C10_OwnSlotIsolated ==
    pc = "parallel" =>
        /\ par # "aborted"
        /\ \A i \in DOMAIN wpc :
              IF wpc[i] \in {"done", "failed"}
              THEN /\ "energy" \in DOMAIN bookkeep[i]
                   /\ bookkeep[i].energy \in {"energy", "inf"}
              ELSE bookkeep[i] = finished[Len(finished)][i]

====
